---------------------------- MODULE Spec2Model ----------------------------
(***************************************************************************)
(* A model of lzw.py (hakmad/lzw): the LZW encoder `compress`, the decoder *)
(* `uncompress`, and the binary file layout written by `compress_to_file`  *)
(* and parsed by `uncompress_from_file`.                                    *)
(*                                                                         *)
(* Representation.                                                         *)
(*  - A Python str is a sequence of symbols; a symbol is a TLA+ string     *)
(*    naming one character.  "" is <<>>, prefix + char is                  *)
(*    Append(prefix, char).                                                *)
(*  - A Python dict is the sequence of its <<key, value>> items in         *)
(*    insertion order (dicts keep insertion order, and the decoder's       *)
(*    reversal of a table, as well as the file writer, iterate in it).     *)
(*  - A raised exception ends the call: pc moves to a "..._raised" value   *)
(*    and the status variable names the exception.                         *)
(*                                                                         *)
(* Spec    : a call compress(s) followed by uncompress on the returned     *)
(*           (list, dict) objects, or a direct call of uncompress on an    *)
(*           arbitrary (list, dict) pair.                                  *)
(* SpecCodec: the file writer of compress_to_file followed by the file     *)
(*           reader of uncompress_from_file.                               *)
(***************************************************************************)
EXTENDS Integers, Sequences, FiniteSets, TLC

VARIABLES
    pc,                  \* position of the program
    \* ---- compress(uncompressed_data, verbose) ----
    uncompressed_data,   \* parameter: the string to compress
    unique_chars,        \* line 44
    initial_table,       \* line 57 (returned at line 131)
    table,               \* line 59: the encoder's working table, str -> code
    table_size,          \* line 63
    prefix,              \* line 75
    pos,                 \* index (1-based) of the next character of the for loop, line 76
    compressed_data,     \* the list object of codes: built by compress (line 38),
                         \* and the very object handed to uncompress
    enc_status,          \* "not_called", "running", "returned", or the exception raised
    \* ---- uncompress(compressed_data, table, verbose) ----
    arg_table,           \* parameter `table` as the caller holds it (str -> code)
    call_data,           \* contents of the caller's list at the moment of the call
    u_table,             \* line 168: local `table` after the reversal, code -> str
    u_table_size,        \* line 165
    previous,            \* line 183
    u_pos,               \* index (1-based) of the next element of the for loop, line 185
    u_uncompressed_data, \* line 158 (returned at line 234)
    u_status,            \* "not_called", "running", "returned", or the exception raised
    \* ---- compress_to_file / uncompress_from_file ----
    file,                \* the bytes of the .lzw file
    w_pos,               \* writer: index of the next table item / code to write
    r_pos,               \* reader: offset (0-based) of the next byte to read
    r_table_size,        \* reader: line 335
    r_count,             \* reader: iterations done of the loop at line 343
    r_table,             \* reader: line 330
    r_data,              \* reader: line 329
    c_status             \* "not_called", "running", "done", or the exception raised

vars == <<pc, uncompressed_data, unique_chars, initial_table, table, table_size,
          prefix, pos, compressed_data, enc_status, arg_table, call_data,
          u_table, u_table_size, previous, u_pos, u_uncompressed_data, u_status,
          file, w_pos, r_pos, r_table_size, r_count, r_table, r_data, c_status>>

encVars == <<uncompressed_data, unique_chars, initial_table, table, table_size,
             prefix, pos, enc_status>>
decVars == <<arg_table, call_data, u_table, u_table_size, previous, u_pos,
             u_uncompressed_data, u_status>>
codecVars == <<file, w_pos, r_pos, r_table_size, r_count, r_table, r_data, c_status>>

---------------------------------------------------------------------------
(* Bounds of the model.                                                    *)

\* Longest input string given to compress.
MaxLen == 5
\* lzw.py line 56 sets max_table_size = 2 ** 16.  The model keeps the name and
\* scales the value down, so that the working table fills up within MaxLen
\* symbols and the alphabet below can exceed it.
max_table_size == 3
\* Direct calls of uncompress: longest code list, largest code in it, and
\* largest code a table entry maps a character to.
MaxCodes == 3
MaxCode == 4
MaxTableCode == 2
\* Codec: most table entries and longest code list written to a file.
MaxEntries == 2
MaxStream == 2

\* The alphabet of the inputs of compress.
Symbols == {"a", "b", "c", "d"}
\* The characters of the tables of direct calls of uncompress.
TableChars == {"a", "b"}

---------------------------------------------------------------------------
(* Python values.                                                          *)

Range(f) == {f[i] : i \in DOMAIN f}

SeqsUpTo(S, n) == UNION {[1..k -> S] : k \in 0..n}

\* dict: keys, values, d[k], d[k] = v (an existing key keeps its place).
Keys(d) == {d[i][1] : i \in DOMAIN d}

Values(d) == {d[i][2] : i \in DOMAIN d}

Get(d, k) == d[CHOOSE i \in DOMAIN d : d[i][1] = k][2]

Put(d, k, v) ==
    IF k \in Keys(d)
    THEN [i \in DOMAIN d |-> IF d[i][1] = k THEN <<k, v>> ELSE d[i]]
    ELSE Append(d, <<k, v>>)

\* The (key, value) pairs of a dict, and those of its inverse.
Pairs(d) == {<<d[i][1], d[i][2]>> : i \in DOMAIN d}

Swapped(d) == {<<d[i][2], d[i][1]>> : i \in DOMAIN d}

\* table[max(table, key=table.get)]: the largest value of a non-empty dict.
MaxValue(d) == CHOOSE v \in Values(d) : \A w \in Values(d) : w <= v

\* list(set(uncompressed_data)): the distinct characters, in an order the
\* set's hashing decides; every order is possible.
Orderings(S) == {q \in [1..Cardinality(S) -> S] : Range(q) = S}

---------------------------------------------------------------------------
(* compress, lines 15-131.                                                 *)

\* Line 57 with the codes counted from 1.
InitialTableFromOne(uc) == [i \in 1..Len(uc) |-> <<(<<uc[i]>>), i>>]

\* Line 57 leaving the last unique character out of the table
\* (range(len(unique_chars) - 1)).
InitialTableShort(uc) == [i \in 1..(Len(uc) - 1) |-> <<(<<uc[i]>>), i - 1>>]

\* Line 57: {unique_chars[i]: i for i in range(len(unique_chars))}.  The key
\* of a character c is the one-character string <<c>>.
InitialTable(uc) == [i \in 1..Len(uc) |-> <<(<<uc[i]>>), i - 1>>]

\* Line 94 with the comparison off by one.
HasRoomOffByOne(ts) == ~(ts > max_table_size)

\* Line 94: not(table_size > max_table_size - 1).
HasRoom(ts) == ~(ts > max_table_size - 1)

\* Lines 57-59: the working table starts as a copy of the initial table.
WorkingTable(uc) == InitialTable(uc)

\* Lines 38-75: the set-up of compress.  max() of the empty table raises
\* ValueError at line 63, after initial_table and table were assigned.
CompressSetup ==
    /\ pc = "compress"
    /\ \E uc \in Orderings(Range(uncompressed_data)) :
          /\ unique_chars' = uc
          /\ initial_table' = InitialTable(uc)
          /\ table' = WorkingTable(uc)
          /\ IF WorkingTable(uc) = <<>>
             THEN /\ pc' = "enc_raised"
                  /\ enc_status' = "ValueError"
                  /\ UNCHANGED <<table_size, pos>>
             ELSE /\ pc' = "enc_loop"
                  /\ table_size' = MaxValue(WorkingTable(uc)) + 1
                  /\ pos' = 1
                  /\ UNCHANGED enc_status
    /\ compressed_data' = <<>>
    /\ prefix' = <<>>
    /\ UNCHANGED <<uncompressed_data, decVars, codecVars>>

\* Lines 81-85: prefix + char is in the table.
CompressHit ==
    /\ pc = "enc_loop"
    /\ pos <= Len(uncompressed_data)
    /\ Append(prefix, uncompressed_data[pos]) \in Keys(table)
    /\ prefix' = Append(prefix, uncompressed_data[pos])
    /\ pos' = pos + 1
    /\ UNCHANGED <<pc, uncompressed_data, unique_chars, initial_table, table,
                   table_size, compressed_data, enc_status, decVars, codecVars>>

\* Lines 87-104: prefix + char is not in the table.  table[prefix] raises
\* KeyError when prefix is no key.
CompressMiss ==
    /\ pc = "enc_loop"
    /\ pos <= Len(uncompressed_data)
    /\ Append(prefix, uncompressed_data[pos]) \notin Keys(table)
    /\ IF prefix \notin Keys(table)
       THEN /\ pc' = "enc_raised"
            /\ enc_status' = "KeyError"
            /\ UNCHANGED <<compressed_data, table, table_size, prefix, pos>>
       ELSE /\ compressed_data' = Append(compressed_data, Get(table, prefix))
            /\ IF HasRoom(table_size)
               THEN /\ table' = Put(table, Append(prefix, uncompressed_data[pos]),
                                    table_size)
                    /\ table_size' = table_size + 1
               ELSE UNCHANGED <<table, table_size>>
            /\ prefix' = <<uncompressed_data[pos]>>
            /\ pos' = pos + 1
            /\ UNCHANGED <<pc, enc_status>>
    /\ UNCHANGED <<uncompressed_data, unique_chars, initial_table, decVars, codecVars>>

\* Lines 106-131: the loop is over; the code of a non-empty prefix is
\* appended and (compressed_data, initial_table) returned.
CompressReturn ==
    /\ pc = "enc_loop"
    /\ pos > Len(uncompressed_data)
    /\ IF prefix # <<>> /\ prefix \notin Keys(table)
       THEN /\ pc' = "enc_raised"
            /\ enc_status' = "KeyError"
            /\ UNCHANGED compressed_data
       ELSE /\ pc' = "enc_returned"
            /\ enc_status' = "returned"
            /\ compressed_data' = IF prefix # <<>>
                                  THEN Append(compressed_data, Get(table, prefix))
                                  ELSE compressed_data
    /\ UNCHANGED <<uncompressed_data, unique_chars, initial_table, table, table_size,
                   prefix, pos, decVars, codecVars>>

---------------------------------------------------------------------------
(* uncompress, lines 134-234.                                              *)

\* Line 168: {value: key for key, value in table.items()}; of two keys with
\* one value the later item wins.
RECURSIVE ReverseFirst(_, _)
ReverseFirst(d, n) ==
    IF n = 0 THEN <<>> ELSE Put(ReverseFirst(d, n - 1), d[n][2], d[n][1])

Reverse(d) == ReverseFirst(d, Len(d))

\* Lines 190-202 with the last branch decoding like the second.
DecodeOutputLenient(tbl, ts, prev, current) ==
    IF current \in Keys(tbl)
    THEN [raised |-> FALSE, output |-> Get(tbl, current)]
    ELSE [raised |-> FALSE, output |-> Append(prev, prev[1])]

\* Lines 190-202: the string of a code, or ValueError.
DecodeOutput(tbl, ts, prev, current) ==
    IF current \in Keys(tbl)
    THEN [raised |-> FALSE, output |-> Get(tbl, current)]
    ELSE IF current = ts
         THEN [raised |-> FALSE, output |-> Append(prev, prev[1])]
         ELSE [raised |-> TRUE, output |-> <<>>]

\* The caller passes what compress returned: the list and the initial table
\* (lzw.py does so through the file, lines 264 and 365).
CallUncompress ==
    /\ pc = "enc_returned"
    /\ pc' = "uncompress"
    /\ arg_table' = initial_table
    /\ call_data' = compressed_data
    /\ u_status' = "running"
    /\ UNCHANGED <<compressed_data, encVars, u_table, u_table_size, previous, u_pos,
                   u_uncompressed_data, codecVars>>

\* Lines 158-168: max() of an empty table raises ValueError at line 165.
UncompressSetup ==
    /\ pc = "uncompress"
    /\ u_uncompressed_data' = <<>>
    /\ IF arg_table = <<>>
       THEN /\ pc' = "u_raised"
            /\ u_status' = "ValueError"
            /\ UNCHANGED <<u_table, u_table_size>>
       ELSE /\ pc' = "u_first"
            /\ u_table_size' = MaxValue(arg_table) + 1
            /\ u_table' = Reverse(arg_table)
            /\ UNCHANGED u_status
    /\ UNCHANGED <<compressed_data, encVars, arg_table, call_data, previous, u_pos,
                   codecVars>>

\* Lines 181-183: table[compressed_data.pop(0)].  pop(0) of an empty list
\* raises IndexError; otherwise the first element leaves the caller's list,
\* and the look-up raises KeyError when it is no key.
UncompressFirst ==
    /\ pc = "u_first"
    /\ IF compressed_data = <<>>
       THEN /\ pc' = "u_raised"
            /\ u_status' = "IndexError"
            /\ UNCHANGED <<compressed_data, u_uncompressed_data, previous, u_pos>>
       ELSE /\ compressed_data' = Tail(compressed_data)
            /\ IF Head(compressed_data) \notin Keys(u_table)
               THEN /\ pc' = "u_raised"
                    /\ u_status' = "KeyError"
                    /\ UNCHANGED <<u_uncompressed_data, previous, u_pos>>
               ELSE /\ pc' = "u_loop"
                    /\ u_uncompressed_data' = Get(u_table, Head(compressed_data))
                    /\ previous' = Get(u_table, Head(compressed_data))
                    /\ u_pos' = 1
                    /\ UNCHANGED u_status
    /\ UNCHANGED <<encVars, arg_table, call_data, u_table, u_table_size, codecVars>>

\* Lines 185-219: one iteration of the loop over what is left of the list.
UncompressStep ==
    /\ pc = "u_loop"
    /\ u_pos <= Len(compressed_data)
    /\ LET r == DecodeOutput(u_table, u_table_size, previous, compressed_data[u_pos])
       IN IF r.raised
          THEN /\ pc' = "u_raised"
               /\ u_status' = "ValueError"
               /\ UNCHANGED <<u_uncompressed_data, u_table, u_table_size, previous,
                              u_pos>>
          ELSE /\ u_uncompressed_data' = u_uncompressed_data \o r.output
               /\ u_table' = Put(u_table, u_table_size, Append(previous, r.output[1]))
               /\ u_table_size' = u_table_size + 1
               /\ previous' = r.output
               /\ u_pos' = u_pos + 1
               /\ UNCHANGED <<pc, u_status>>
    /\ UNCHANGED <<compressed_data, encVars, arg_table, call_data, codecVars>>

\* Lines 221-234: the loop is over; uncompressed_data is returned.
UncompressReturn ==
    /\ pc = "u_loop"
    /\ u_pos > Len(compressed_data)
    /\ pc' = "u_returned"
    /\ u_status' = "returned"
    /\ UNCHANGED <<compressed_data, encVars, arg_table, call_data, u_table,
                   u_table_size, previous, u_pos, u_uncompressed_data, codecVars>>

---------------------------------------------------------------------------
(* The specification of the two passes.                                    *)

Inputs == SeqsUpTo(Symbols, MaxLen)

CodeLists == SeqsUpTo(0..MaxCode, MaxCodes)

\* The tables of direct calls: one-character keys, no key twice, any codes
\* (a table read from a file need not be dense, nor one-to-one).
ArgTables ==
    {t \in SeqsUpTo({<<c>> : c \in TableChars} \X (0..MaxTableCode),
                    Cardinality(TableChars)) :
        \A i, j \in DOMAIN t : i # j => t[i][1] # t[j][1]}

CodecIdle ==
    /\ file = <<>>
    /\ w_pos = 0
    /\ r_pos = 0
    /\ r_table_size = 0
    /\ r_count = 0
    /\ r_table = <<>>
    /\ r_data = <<>>
    /\ c_status = "not_called"

EncoderIdle ==
    /\ unique_chars = <<>>
    /\ initial_table = <<>>
    /\ table = <<>>
    /\ table_size = 0
    /\ prefix = <<>>
    /\ pos = 0

DecoderIdle ==
    /\ u_table = <<>>
    /\ u_table_size = 0
    /\ previous = <<>>
    /\ u_pos = 0
    /\ u_uncompressed_data = <<>>

\* compress(s) is called.
InitCompress ==
    /\ pc = "compress"
    /\ uncompressed_data \in Inputs
    /\ enc_status = "running"
    /\ compressed_data = <<>>
    /\ arg_table = <<>>
    /\ call_data = <<>>
    /\ u_status = "not_called"
    /\ EncoderIdle /\ DecoderIdle /\ CodecIdle

\* uncompress(codes, table) is called directly.
InitUncompress ==
    /\ pc = "uncompress"
    /\ uncompressed_data = <<>>
    /\ enc_status = "not_called"
    /\ compressed_data \in CodeLists
    /\ call_data = compressed_data
    /\ arg_table \in ArgTables
    /\ u_status = "running"
    /\ EncoderIdle /\ DecoderIdle /\ CodecIdle

Init == InitCompress \/ InitUncompress

Next ==
    \/ CompressSetup
    \/ CompressHit
    \/ CompressMiss
    \/ CompressReturn
    \/ CallUncompress
    \/ UncompressSetup
    \/ UncompressFirst
    \/ UncompressStep
    \/ UncompressReturn

Spec == Init /\ [][Next]_vars


---------------------------------------------------------------------------
(* compress_to_file, lines 264-298, and uncompress_from_file, lines        *)
(* 325-359.  The file is a sequence of bytes (0..255).                     *)

\* The characters of the tables written to files, with their code points:
\* both bytes of the 2-byte field are exercised.
CharOrd == [c \in {"a", "U+20AC", "U+FFFF"} |->
              IF c = "a" THEN 97 ELSE IF c = "U+20AC" THEN 8364 ELSE 65535]

\* ord(char) of a one-character string, chr(n).
Ord(key) == CharOrd[key[1]]

Chr(n) == <<CHOOSE c \in DOMAIN CharOrd : CharOrd[c] = n>>

\* struct.pack("<B", v), struct.pack("<H", v): struct.error outside the range.
FitsB(v) == v \in 0..255

FitsH(v) == v \in 0..65535

PackB(v) == <<v>>

PackH(v) == <<v % 256, v \div 256>>

\* struct.unpack("<B", b)[0], struct.unpack("<H", b)[0].
UnpackB(b) == b[1]

UnpackH(b) == b[1] + 256 * b[2]

\* file.read(n): the next n bytes, fewer at the end of the file.
Read(f, at, n) == SubSeq(f, at + 1, IF at + n <= Len(f) THEN at + n ELSE Len(f))

\* Lines 270-283: table_size is the largest code of the table (ValueError
\* for an empty table, before the file is opened), written in one byte.
WriteTableSize ==
    /\ pc = "write_size"
    /\ IF initial_table = <<>>
       THEN /\ pc' = "codec_raised"
            /\ c_status' = "ValueError"
            /\ UNCHANGED <<file, w_pos>>
       ELSE IF ~FitsB(MaxValue(initial_table))
            THEN /\ pc' = "codec_raised"
                 /\ c_status' = "struct.error"
                 /\ file' = <<>>
                 /\ UNCHANGED w_pos
            ELSE /\ pc' = "write_table"
                 /\ file' = PackB(MaxValue(initial_table))
                 /\ w_pos' = 1
                 /\ UNCHANGED c_status
    /\ UNCHANGED <<compressed_data, encVars, decVars, r_pos, r_table_size, r_count,
                   r_table, r_data>>

\* Lines 289-291: one item of the table, 2 bytes of character and 1 of code.
WriteEntry ==
    /\ pc = "write_table"
    /\ w_pos <= Len(initial_table)
    /\ IF ~FitsH(Ord(initial_table[w_pos][1]))
       THEN /\ pc' = "codec_raised"
            /\ c_status' = "struct.error"
            /\ UNCHANGED <<file, w_pos>>
       ELSE IF ~FitsB(initial_table[w_pos][2])
            THEN /\ pc' = "codec_raised"
                 /\ c_status' = "struct.error"
                 /\ file' = file \o PackH(Ord(initial_table[w_pos][1]))
                 /\ UNCHANGED w_pos
            ELSE /\ file' = file \o PackH(Ord(initial_table[w_pos][1]))
                                 \o PackB(initial_table[w_pos][2])
                 /\ w_pos' = w_pos + 1
                 /\ UNCHANGED <<pc, c_status>>
    /\ UNCHANGED <<compressed_data, encVars, decVars, r_pos, r_table_size, r_count,
                   r_table, r_data>>

\* Line 297: the loop over the table is over, the one over the codes begins.
WriteTableDone ==
    /\ pc = "write_table"
    /\ w_pos > Len(initial_table)
    /\ pc' = "write_codes"
    /\ w_pos' = 1
    /\ UNCHANGED <<compressed_data, encVars, decVars, file, r_pos, r_table_size,
                   r_count, r_table, r_data, c_status>>

\* Lines 297-298: one code, 2 bytes.
WriteCode ==
    /\ pc = "write_codes"
    /\ w_pos <= Len(compressed_data)
    /\ IF ~FitsH(compressed_data[w_pos])
       THEN /\ pc' = "codec_raised"
            /\ c_status' = "struct.error"
            /\ UNCHANGED <<file, w_pos>>
       ELSE /\ file' = file \o PackH(compressed_data[w_pos])
            /\ w_pos' = w_pos + 1
            /\ UNCHANGED <<pc, c_status>>
    /\ UNCHANGED <<compressed_data, encVars, decVars, r_pos, r_table_size, r_count,
                   r_table, r_data>>

\* Lines 325-335: the file is closed by the writer and opened by the reader,
\* which reads the table size from the first byte.
ReadTableSize ==
    /\ pc = "write_codes"
    /\ w_pos > Len(compressed_data)
    /\ r_table' = <<>>
    /\ r_data' = <<>>
    /\ r_count' = 0
    /\ IF Len(Read(file, 0, 1)) < 1
       THEN /\ pc' = "codec_raised"
            /\ c_status' = "struct.error"
            /\ r_pos' = 0
            /\ UNCHANGED r_table_size
       ELSE /\ pc' = "read_table"
            /\ r_table_size' = UnpackB(Read(file, 0, 1))
            /\ r_pos' = 1
            /\ UNCHANGED c_status
    /\ UNCHANGED <<compressed_data, encVars, decVars, file, w_pos>>

\* Line 343 looping range(table_size).
EntryCountOffByOne(ts) == ts

\* Line 343: range(table_size + 1), the size byte holding the largest code.
EntryCount(ts) == ts + 1

\* Lines 343-347: one of the table_size + 1 items of the table.  A read that
\* comes back short makes struct.unpack raise struct.error; the bytes it did
\* return are consumed: a short read(2) at line 344 leaves the offset at the
\* end of the file, an empty read(1) at line 345 leaves it after the character.
ReadEntry ==
    /\ pc = "read_table"
    /\ r_count < EntryCount(r_table_size)
    /\ IF Len(Read(file, r_pos, 2)) < 2 \/ Len(Read(file, r_pos + 2, 1)) < 1
       THEN /\ pc' = "codec_raised"
            /\ c_status' = "struct.error"
            /\ r_pos' = r_pos + Len(Read(file, r_pos, 2))
            /\ UNCHANGED <<r_count, r_table>>
       ELSE /\ r_table' = Put(r_table, Chr(UnpackH(Read(file, r_pos, 2))),
                              UnpackB(Read(file, r_pos + 2, 1)))
            /\ r_pos' = r_pos + 3
            /\ r_count' = r_count + 1
            /\ UNCHANGED <<pc, c_status>>
    /\ UNCHANGED <<compressed_data, encVars, decVars, file, w_pos, r_table_size, r_data>>

\* Line 353: the table is read, the loop over the codes begins.
ReadTableDone ==
    /\ pc = "read_table"
    /\ ~(r_count < EntryCount(r_table_size))
    /\ pc' = "read_codes"
    /\ UNCHANGED <<compressed_data, encVars, decVars, codecVars>>

\* Lines 353-359: 2 bytes at a time until read returns nothing.
ReadCode ==
    /\ pc = "read_codes"
    /\ IF Len(Read(file, r_pos, 2)) = 0
       THEN /\ pc' = "read_done"
            /\ c_status' = "done"
            /\ UNCHANGED <<r_pos, r_data>>
       ELSE IF Len(Read(file, r_pos, 2)) < 2
            THEN /\ pc' = "codec_raised"
                 /\ c_status' = "struct.error"
                 /\ r_pos' = r_pos + 1
                 /\ UNCHANGED r_data
            ELSE /\ r_data' = Append(r_data, UnpackH(Read(file, r_pos, 2)))
                 /\ r_pos' = r_pos + 2
                 /\ UNCHANGED <<pc, c_status>>
    /\ UNCHANGED <<encVars, compressed_data, decVars, file, w_pos, r_table_size,
                   r_count, r_table>>

\* Codes of 2 bytes: both bytes of the field are exercised.
StreamCodes == {0, 255, 256, 65535}

\* Tables of distinct characters with the dense codes 0..n-1, the items in
\* any order.  A table has at least one entry: compress returns none for the
\* empty input (it raises at line 63), so line 264 never holds an empty table.
CodecTables ==
    {t \in SeqsUpTo({<<c>> : c \in DOMAIN CharOrd} \X (0..(MaxEntries - 1)), MaxEntries) :
        /\ t # <<>>
        /\ \A i, j \in DOMAIN t : i # j => t[i][1] # t[j][1] /\ t[i][2] # t[j][2]
        /\ Values(t) = 0..(Len(t) - 1)}

\* compress_to_file holds (compressed_data, table) at line 264.
InitCodec ==
    /\ pc = "write_size"
    /\ uncompressed_data = <<>>
    /\ enc_status = "returned"
    /\ compressed_data \in SeqsUpTo(StreamCodes, MaxStream)
    /\ initial_table \in CodecTables
    /\ unique_chars = <<>>
    /\ table = <<>>
    /\ table_size = 0
    /\ prefix = <<>>
    /\ pos = 0
    /\ arg_table = <<>>
    /\ call_data = <<>>
    /\ u_status = "not_called"
    /\ DecoderIdle
    /\ file = <<>>
    /\ w_pos = 0
    /\ r_pos = 0
    /\ r_table_size = 0
    /\ r_count = 0
    /\ r_table = <<>>
    /\ r_data = <<>>
    /\ c_status = "running"

NextCodec ==
    \/ WriteTableSize
    \/ WriteEntry
    \/ WriteTableDone
    \/ WriteCode
    \/ ReadTableSize
    \/ ReadEntry
    \/ ReadTableDone
    \/ ReadCode

SpecCodec == InitCodec /\ [][NextCodec]_vars


---------------------------------------------------------------------------
(* The claims.                                                             *)

\* The run started with a call of compress / with a direct call of uncompress.
PipelineCall == enc_status # "not_called" /\ c_status = "not_called"

DirectCall == enc_status = "not_called"

\* Both calls of the pipeline are over (or the first one raised).
PipelineOver == PipelineCall /\ pc \in {"enc_raised", "u_raised", "u_returned"}

\* C1: for every input s, uncompress applied to what compress(s) returned
\* returns exactly s.
C1_RoundTrip ==
    PipelineOver => (pc = "u_returned" /\ u_uncompressed_data = uncompressed_data)

\* The round trip of every non-empty input (not a claim of its own: the part
\* of C1 that the code satisfies).
RoundTripOfNonEmptyInput ==
    (PipelineOver /\ uncompressed_data # <<>>)
        => (pc = "u_returned" /\ u_uncompressed_data = uncompressed_data)

\* C2: compress of the empty string returns an empty code list and an empty
\* table, and uncompress of an empty code list with an empty table returns
\* the empty string.
C2_EmptyInput ==
    /\ (PipelineCall /\ uncompressed_data = <<>> /\ pc \notin {"compress", "enc_loop"})
          => (enc_status = "returned" /\ compressed_data = <<>> /\ initial_table = <<>>)
    /\ (DirectCall /\ call_data = <<>> /\ arg_table = <<>>
          /\ pc \in {"u_raised", "u_returned"})
          => (pc = "u_returned" /\ u_uncompressed_data = <<>>)

\* The decoder is about to consume a code (the first one, or a later one)
\* that is neither a key of its working table nor its table-size counter.
AtCorruptCode ==
    \/ /\ pc = "u_first"
       /\ compressed_data # <<>>
       /\ Head(compressed_data) \notin Keys(u_table)
       /\ Head(compressed_data) # u_table_size
    \/ /\ pc = "u_loop"
       /\ u_pos <= Len(compressed_data)
       /\ compressed_data[u_pos] \notin Keys(u_table)
       /\ compressed_data[u_pos] # u_table_size

\* C3: whenever the code being consumed by uncompress is neither a key of the
\* working table nor equal to the table-size counter, the call ends there in
\* a raised exception and returns no string; a call that raised stays so.
C3_CorruptCodeRaises ==
    [][/\ AtCorruptCode => (pc' = "u_raised"
                             /\ u_status' \in {"KeyError", "ValueError"})
       /\ pc = "u_raised" => (pc' = "u_raised" /\ u_status' = u_status)]_vars

\* C3 witness: a later code of the list was corrupt and the call raised at it.
C3_Witness ==
    /\ pc = "u_raised"
    /\ u_status = "ValueError"
    /\ u_pos >= 2
    /\ compressed_data[u_pos] \notin Keys(u_table)
    /\ compressed_data[u_pos] # u_table_size

\* The encoding meets more than max_table_size distinct table strings: the
\* initial entries plus one new string per code emitted inside the loop.
WouldExceed == Len(initial_table) + (Len(call_data) - 1) > max_table_size

\* C5 as stated: for every input whose encoding would create more than
\* max_table_size table strings the round trip returns the input and no
\* emitted code is >= max_table_size.
C5_ExhaustionAsStated ==
    (PipelineOver /\ pc # "enc_raised" /\ WouldExceed)
        => /\ pc = "u_returned"
           /\ u_uncompressed_data = uncompressed_data
           /\ \A i \in DOMAIN call_data : call_data[i] < max_table_size

\* C5 amended: the same, for inputs with at most max_table_size distinct
\* symbols.
C5_Exhaustion ==
    (PipelineOver /\ pc # "enc_raised" /\ WouldExceed
       /\ Cardinality(Range(uncompressed_data)) <= max_table_size)
        => /\ pc = "u_returned"
           /\ u_uncompressed_data = uncompressed_data
           /\ \A i \in DOMAIN call_data : call_data[i] < max_table_size

\* C5 witness: the encoder's table grew, filled up part-way through the
\* input, later codes were emitted against the full table, and the decoder
\* returned the input.
C5_Witness ==
    /\ PipelineCall
    /\ pc = "u_returned"
    /\ WouldExceed
    /\ Len(initial_table) < max_table_size
    /\ Len(table) = max_table_size
    /\ u_uncompressed_data = uncompressed_data

\* C6: on both sides the working table never holds more than max_table_size
\* entries, the table-size counter never exceeds max_table_size, and a
\* working table of max_table_size entries is never changed again.
C6_TableCeiling ==
    /\ [](/\ Len(table) <= max_table_size
          /\ table_size <= max_table_size
          /\ Len(u_table) <= max_table_size
          /\ u_table_size <= max_table_size)
    /\ [][/\ Len(table) = max_table_size => table' = table
          /\ Len(u_table) = max_table_size => u_table' = u_table]_vars

\* compress is about to read table[prefix]: in the miss branch (line 91) or
\* in the final emission (line 111).
AtLookup ==
    /\ pc = "enc_loop"
    /\ \/ /\ pos <= Len(uncompressed_data)
          /\ Append(prefix, uncompressed_data[pos]) \notin Keys(table)
       \/ /\ pos > Len(uncompressed_data)
          /\ prefix # <<>>

\* C7: wherever compress reads table[prefix], prefix is a non-empty key of
\* the working table, so the look-up never raises, full table or not.
C7_LookupNeverFails ==
    /\ AtLookup => (prefix # <<>> /\ prefix \in Keys(table))
    /\ enc_status # "KeyError"

\* C7 witness: a look-up in the miss branch while the table is full.
C7_Witness ==
    /\ AtLookup
    /\ pos <= Len(uncompressed_data)
    /\ ~HasRoom(table_size)
    /\ Len(table) > Len(initial_table)
    /\ prefix \in Keys(table)

\* C8: while decoding what compress returned, every entry of the decoder's
\* table is an entry of the encoder's final table (the decoder inserts the
\* pairs the encoder inserted), and when uncompress returns its table is
\* exactly the inverse of the encoder's.
C8_TableSymmetry ==
    /\ (PipelineCall /\ pc \in {"u_first", "u_loop", "u_returned"})
          => Swapped(u_table) \subseteq Pairs(table)
    /\ (PipelineCall /\ pc = "u_returned") => Swapped(u_table) = Pairs(table)

\* The symmetry of the two tables when the encoding stays within the ceiling
\* (not a claim of its own: the part of C8 that the code satisfies).
TableSymmetryBelowCeiling ==
    (PipelineCall /\ pc = "u_returned" /\ ~WouldExceed)
        => Swapped(u_table) = Pairs(table)

\* C9: the initial table holds exactly one entry per distinct symbol of the
\* input, its codes are exactly 0..unique_count-1, and this stays so while
\* the working table grows and after compress returned.
C9_InitialTableShape ==
    (PipelineCall /\ pc \notin {"compress", "enc_raised"})
        => /\ Len(initial_table) = Cardinality(Range(uncompressed_data))
           /\ Keys(initial_table) = {<<c>> : c \in Range(uncompressed_data)}
           /\ Values(initial_table) = 0..(Cardinality(Range(uncompressed_data)) - 1)

\* C9 witness: compress returned after its working table grew beyond an
\* initial table of several symbols.
C9_Witness ==
    /\ PipelineCall
    /\ pc = "enc_returned"
    /\ Len(initial_table) >= 2
    /\ Len(table) > Len(initial_table)
    /\ \A i \in DOMAIN initial_table : Len(initial_table[i][1]) = 1

\* C10: when uncompress returns, the caller's code list is what it was at the
\* call (the table is never assigned to in the model: line 168 rebinds the
\* local name).
C10_ArgumentsUnchanged ==
    pc = "u_returned" => compressed_data = call_data

\* C4: the bytes written for a table of 1..MaxEntries entries (distinct
\* 2-byte characters, dense codes) and a list of 2-byte codes are read back
\* as exactly the same table and the same list, in the same order, and
\* neither the writer nor the reader raises.
C4_BinaryRoundTrip ==
    /\ c_status \in {"running", "done"}
    /\ pc = "read_done"
          => /\ r_table = initial_table
             /\ r_data = compressed_data

\* C4 witness: a file with several table entries, a character and a code
\* that need the high byte, read back completely.
C4_Witness ==
    /\ pc = "read_done"
    /\ Len(initial_table) >= 2
    /\ \E i \in DOMAIN initial_table : Ord(initial_table[i][1]) > 255
    /\ \E i \in DOMAIN compressed_data : compressed_data[i] > 255
    /\ Len(file) = 1 + 3 * Len(initial_table) + 2 * Len(compressed_data)
    /\ r_table = initial_table
    /\ r_data = compressed_data

=============================================================================
